---- MODULE Spec2Model ----
(***************************************************************************)
(* A model of @bevry/argument: the Argument class (source/index.ts), its   *)
(* ArgumentError, the static exit handler, and the example driver's parse  *)
(* loop.                                                                   *)
(*                                                                         *)
(* A JavaScript string is a sequence of one-character strings, so that     *)
(* startsWith, indexOf and substring are computed rather than assumed.     *)
(* A message built by a template literal is the concatenation of its       *)
(* pieces; a literal piece is kept as one element.                         *)
(***************************************************************************)
EXTENDS Integers, Sequences, FiniteSets, TLC

VARIABLES
    input,      \* the raw token handed to `new Argument(...)`
    a,          \* the Argument object (NoArgument before construction)
    call,       \* the last method called on it, with its options
    outcome,    \* what that call did: returned a value or threw an error
    help,       \* the help text given to Argument.help / Argument.exit
    error,      \* the error handed to Argument.exit (Undefined when none)
    stderr,     \* what console.error has printed, in order
    exits,      \* the exit codes process.exit was called with, in order
    xpc,        \* where the exit scenario is: "run", "caught", "exited", "crashed"
    argv,       \* process.argv.slice(2) as the driver was started
    args,       \* the driver's args array (shifted as it is consumed)
    opts,       \* the driver's options record
    log,        \* what action(opts) has logged, in order
    dpc,        \* where the driver is: "loop", "action", "resolved", "rejected", "exited"
    rejection   \* the error parse rejected with

coreVars == <<input, a, call, outcome>>
exitVars == <<help, error, stderr, exits, xpc>>
driverVars == <<argv, args, opts, log, dpc, rejection>>
vars == <<input, a, call, outcome, help, error, stderr, exits, xpc,
          argv, args, opts, log, dpc, rejection>>

----------------------------------------------------------------------------
(* Bounds of the model *)

\* A raw token is the concatenation of at most MaxParts fragments.
MaxParts == 4

\* The driver is started with at most MaxArgs arguments.
MaxArgs == 3

----------------------------------------------------------------------------
(* JavaScript values *)

Undefined == [t |-> "undefined", s |-> <<>>, n |-> 0]
Null == [t |-> "null", s |-> <<>>, n |-> 0]
NaN == [t |-> "NaN", s |-> <<>>, n |-> 0]
Str(s) == [t |-> "string", s |-> s, n |-> 0]
Num(n) == [t |-> "number", s |-> <<>>, n |-> n]
Bool(b) == [t |-> "boolean", s |-> <<>>, n |-> IF b THEN 1 ELSE 0]

\* `v == null`: true of null and of undefined
IsNullish(v) == v.t \in {"null", "undefined"}

----------------------------------------------------------------------------
(* String.prototype methods used by the source *)

Min(x, y) == IF x < y THEN x ELSE y
Max(x, y) == IF x > y THEN x ELSE y

\* s.startsWith(p)
StartsWith(s, p) ==
    /\ Len(p) <= Len(s)
    /\ SubSeq(s, 1, Len(p)) = p

\* s.indexOf(c) for a one-character c: the 0-based index of the first c, or -1
IndexOf(s, c) ==
    IF \E i \in 1..Len(s) : s[i] = c
    THEN (CHOOSE i \in 1..Len(s) : s[i] = c /\ \A j \in 1..(i - 1) : s[j] # c) - 1
    ELSE -1

\* s.substring(start, end): 0-based, end exclusive, both clamped to [0, length]
\* and swapped when start > end
Substring(s, start, end) ==
    LET lo == Min(Max(Min(start, end), 0), Len(s))
        hi == Min(Max(Max(start, end), 0), Len(s))
    IN  SubSeq(s, lo + 1, hi)

\* s.substring(start)
SubstringFrom(s, start) == Substring(s, start, Len(s))

\* list.includes(s)
Includes(list, s) == \E i \in 1..Len(list) : list[i] = s

----------------------------------------------------------------------------
(* class ArgumentError extends Errlop *)

ExitCodeInvalid == 22

\* new ArgumentError(message)
ArgumentError(message) ==
    [name |-> "ArgumentError", message |-> message,
     exitCode |-> Num(ExitCodeInvalid), code |-> "EINVAL"]

NoError == [name |-> "", message |-> <<>>, exitCode |-> Undefined, code |-> ""]

\* What a call did
NoOutcome == [kind |-> "none", value |-> Undefined, error |-> NoError]
Return(v) == [kind |-> "return", value |-> v, error |-> NoError]
Throw(e) == [kind |-> "throw", value |-> Undefined, error |-> e]

----------------------------------------------------------------------------
(* class Argument *)

NoArgument ==
    [arg |-> <<>>, key |-> <<>>, value |-> Undefined,
     flag |-> FALSE, inverted |-> FALSE, built |-> FALSE]

truthy == << <<"t","r","u","e">>, <<"1">>, <<"y","e","s">>, <<"y">>, <<"o","n">> >>
falsey == << <<"f","a","l","s","e">>, <<"0">>, <<"n","o">>, <<"n">>, <<"o","f","f">> >>

\* constructor(arg), with a plausible slip: the value starts at the "="
MutArgumentKeepsEquals(arg) ==
    LET index == IndexOf(arg, "=")
        isSentinel == arg = <<"-","-">>
        isFlag == ~isSentinel /\ StartsWith(arg, <<"-","-">>)
        key0 == IF isSentinel THEN <<"-","-">>
                ELSE IF isFlag
                     THEN IF index = -1 THEN SubstringFrom(arg, 2)
                                        ELSE Substring(arg, 2, index)
                     ELSE <<>>
        value0 == IF isSentinel THEN Null
                  ELSE IF isFlag
                       THEN IF index = -1 THEN Null
                                          ELSE Str(SubstringFrom(arg, index))
                       ELSE Str(arg)
        isInverted == isFlag /\ StartsWith(key0, <<"n","o","-">>)
    IN  [arg |-> arg,
         key |-> IF isInverted THEN SubstringFrom(key0, 3) ELSE key0,
         value |-> value0,
         flag |-> isFlag,
         inverted |-> isInverted,
         built |-> TRUE]

\* constructor(arg), with a plausible slip: the "--" test is dropped
MutArgumentNoSentinel(arg) ==
    LET index == IndexOf(arg, "=")
        isFlag == StartsWith(arg, <<"-","-">>)
        key0 == IF isFlag
                THEN IF index = -1 THEN SubstringFrom(arg, 2)
                                   ELSE Substring(arg, 2, index)
                ELSE <<>>
        value0 == IF isFlag
                  THEN IF index = -1 THEN Null
                                     ELSE Str(SubstringFrom(arg, index + 1))
                  ELSE Str(arg)
        isInverted == isFlag /\ StartsWith(key0, <<"n","o","-">>)
    IN  [arg |-> arg,
         key |-> IF isInverted THEN SubstringFrom(key0, 3) ELSE key0,
         value |-> value0,
         flag |-> isFlag,
         inverted |-> isInverted,
         built |-> TRUE]

\* constructor(arg), with a plausible slip: a positional argument keeps the
\* field default (null) as its value
MutArgumentPositionalNull(arg) ==
    LET index == IndexOf(arg, "=")
        isSentinel == arg = <<"-","-">>
        isFlag == ~isSentinel /\ StartsWith(arg, <<"-","-">>)
        key0 == IF isSentinel THEN <<"-","-">>
                ELSE IF isFlag
                     THEN IF index = -1 THEN SubstringFrom(arg, 2)
                                        ELSE Substring(arg, 2, index)
                     ELSE <<>>
        value0 == IF isFlag /\ index # -1
                  THEN Str(SubstringFrom(arg, index + 1))
                  ELSE Null
        isInverted == isFlag /\ StartsWith(key0, <<"n","o","-">>)
    IN  [arg |-> arg,
         key |-> IF isInverted THEN SubstringFrom(key0, 3) ELSE key0,
         value |-> value0,
         flag |-> isFlag,
         inverted |-> isInverted,
         built |-> TRUE]

\* constructor(arg): parse the argument, extracting key, value and inverted
Argument(arg) ==
    LET index == IndexOf(arg, "=")
        isSentinel == arg = <<"-","-">>
        isFlag == ~isSentinel /\ StartsWith(arg, <<"-","-">>)
        key0 == IF isSentinel THEN <<"-","-">>
                ELSE IF isFlag
                     THEN IF index = -1 THEN SubstringFrom(arg, 2)
                                        ELSE Substring(arg, 2, index)
                     ELSE <<>>
        value0 == IF isSentinel THEN Null
                  ELSE IF isFlag
                       THEN IF index = -1 THEN Null
                                          ELSE Str(SubstringFrom(arg, index + 1))
                       ELSE Str(arg)
        isInverted == isFlag /\ StartsWith(key0, <<"n","o","-">>)
    IN  [arg |-> arg,
         key |-> IF isInverted THEN SubstringFrom(key0, 3) ELSE key0,
         value |-> value0,
         flag |-> isFlag,
         inverted |-> isInverted,
         built |-> TRUE]

\* static error(error): throw new ArgumentError(error)
StaticError(message) == Throw(ArgumentError(message))

\* static help(help): throw new ArgumentError(help)
StaticHelp(h) == Throw(ArgumentError(h))

\* error(error): throw Argument.error(error)
ErrorMethod(this, message) == StaticError(message)

\* unknown(): throw this.error(`Unknown flag: ${arg}` or `Unknown argument ${arg}`)
Unknown(this) ==
    ErrorMethod(this,
        IF this.flag THEN <<"Unknown flag: ">> \o this.arg
                     ELSE <<"Unknown argument ">> \o this.arg)

----------------------------------------------------------------------------
(* Number(value) and String.prototype.trim *)

IsWhitespace(c) == c \in {" ", "\t", "\n"}

RECURSIVE TrimStart(_)
TrimStart(s) ==
    IF s # <<>> /\ IsWhitespace(Head(s)) THEN TrimStart(Tail(s)) ELSE s

RECURSIVE TrimEnd(_)
TrimEnd(s) ==
    IF s # <<>> /\ IsWhitespace(s[Len(s)])
    THEN TrimEnd(SubSeq(s, 1, Len(s) - 1))
    ELSE s

\* s.trim()
Trim(s) == TrimEnd(TrimStart(s))

Digits == {"0", "1", "2", "3", "4", "5", "6", "7", "8", "9"}

DigitValue(c) ==
    CASE c = "0" -> 0 [] c = "1" -> 1 [] c = "2" -> 2 [] c = "3" -> 3
      [] c = "4" -> 4 [] c = "5" -> 5 [] c = "6" -> 6 [] c = "7" -> 7
      [] c = "8" -> 8 [] c = "9" -> 9

RECURSIVE DecimalValue(_)
DecimalValue(s) ==
    IF s = <<>> THEN 0
    ELSE 10 * DecimalValue(SubSeq(s, 1, Len(s) - 1)) + DigitValue(s[Len(s)])

IsDecimal(s) == s # <<>> /\ \A i \in 1..Len(s) : s[i] \in Digits

\* Number(s) for a string s: surrounding whitespace is ignored, the empty
\* string is 0, a signed run of decimal digits is its value, anything else
\* is NaN.  (The strings of this model hold no ".", "e", "x" or "Infinity",
\* so the other numeric literal forms do not arise.)
StringToNumber(s) ==
    LET t == Trim(s)
        signed == t # <<>> /\ Head(t) \in {"+", "-"}
        body == IF signed THEN Tail(t) ELSE t
    IN  IF t = <<>> THEN Num(0)
        ELSE IF IsDecimal(body)
             THEN Num(IF signed /\ Head(t) = "-" THEN 0 - DecimalValue(body)
                                                  ELSE DecimalValue(body))
             ELSE NaN

\* Number(value)
ToNumber(v) ==
    CASE v.t = "number" -> v
      [] v.t = "NaN" -> NaN
      [] v.t = "string" -> StringToNumber(v.s)
      [] v.t = "boolean" -> Num(v.n)
      [] v.t = "null" -> Num(0)
      [] v.t = "undefined" -> NaN

\* isNaN(number), for the result of Number(...)
IsNaN(v) == v.t = "NaN"

----------------------------------------------------------------------------
(* Argument's coercions *)

NoOptions ==
    [enabled |-> Undefined, disabled |-> Undefined,
     enabledEmpty |-> Undefined, disabledEmpty |-> Undefined]

\* fallback(error, opts) as its documentation has it: enabledEmpty for
\* [--key=], disabledEmpty for [--no-key=]
MutFallbackAsDocumented(this, message, o) ==
    IF IsNullish(this.value)
    THEN IF this.inverted
         THEN IF IsNullish(o.disabled) THEN ErrorMethod(this, message)
                                       ELSE Return(o.disabled)
         ELSE IF IsNullish(o.enabled) THEN ErrorMethod(this, message)
                                      ELSE Return(o.enabled)
    ELSE IF this.value = Str(<<>>)
         THEN IF this.inverted
              THEN IF IsNullish(o.disabledEmpty) THEN ErrorMethod(this, message)
                                                 ELSE Return(o.disabledEmpty)
              ELSE IF IsNullish(o.enabledEmpty) THEN ErrorMethod(this, message)
                                                ELSE Return(o.enabledEmpty)
         ELSE Return(this.value)

\* fallback(error, opts), with a plausible slip: an absent slot is returned
\* (as undefined) instead of throwing
MutFallbackNoThrow(this, message, o) ==
    IF IsNullish(this.value)
    THEN IF this.inverted THEN Return(o.disabled) ELSE Return(o.enabled)
    ELSE IF this.value = Str(<<>>)
         THEN IF this.inverted THEN Return(o.enabledEmpty)
                               ELSE Return(o.disabledEmpty)
         ELSE Return(this.value)

\* fallback(error, opts): parse the defaults for the argument
Fallback(this, message, o) ==
    IF IsNullish(this.value)
    THEN IF this.inverted
         THEN IF IsNullish(o.disabled) THEN ErrorMethod(this, message)
                                       ELSE Return(o.disabled)
         ELSE IF IsNullish(o.enabled) THEN ErrorMethod(this, message)
                                      ELSE Return(o.enabled)
    ELSE IF this.value = Str(<<>>)
         THEN IF this.inverted
              THEN IF IsNullish(o.enabledEmpty) THEN ErrorMethod(this, message)
                                                ELSE Return(o.enabledEmpty)
              ELSE IF IsNullish(o.disabledEmpty) THEN ErrorMethod(this, message)
                                                 ELSE Return(o.disabledEmpty)
         ELSE Return(this.value)

StringMessage(this) ==
    <<"Argument ">> \o this.arg \o <<" must have a string value, e.g. ">>
    \o (IF this.flag THEN <<"--">> \o this.key \o <<"=string">>
                     ELSE <<"<string>">>)

\* string(opts): parse our flag as a string
String(this, o) == Fallback(this, StringMessage(this), o)

NumberMessage(this) ==
    <<"Argument ">> \o this.arg \o <<" must have a number value, e.g. ">>
    \o (IF this.flag THEN <<"--">> \o this.key \o <<"=123">>
                     ELSE <<"123">>)

\* number(opts), with a plausible slip: the isNaN test is dropped
MutNumberNoNaNCheck(this, o) ==
    LET resolved == Fallback(this, NumberMessage(this), o)
        value == resolved.value
    IN  IF resolved.kind = "throw" THEN resolved
        ELSE Return(IF IsNullish(value) \/ value = Str(<<>>)
                    THEN NaN ELSE ToNumber(value))

\* number(opts): parse our argument/flag as a number
Number(this, o) ==
    LET resolved == Fallback(this, NumberMessage(this), o)
        value == resolved.value
        number == IF IsNullish(value) \/ value = Str(<<>>)
                  THEN NaN ELSE ToNumber(value)
    IN  IF resolved.kind = "throw" THEN resolved
        ELSE IF IsNaN(number) THEN ErrorMethod(this, NumberMessage(this))
        ELSE Return(number)

BooleanMessage(this) ==
    <<"Argument ">> \o this.arg \o <<" must have a boolean value, e.g. ">>
    \o (IF this.flag
        THEN <<"--">> \o this.key \o <<" or --no-">> \o this.key
             \o <<" or --">> \o this.key \o <<"=yes">>
        ELSE <<"yes">>)

\* boolean(), with a plausible slip: the inversion of a falsey value is lost
MutBooleanFalseyIgnoresInverted(this) ==
    IF IsNullish(this.value) \/ this.value = Str(<<>>)
    THEN Return(Bool(~this.inverted))
    ELSE IF Includes(truthy, this.value.s)
         THEN IF this.inverted THEN Return(Bool(FALSE)) ELSE Return(Bool(TRUE))
    ELSE IF Includes(falsey, this.value.s)
         THEN Return(Bool(FALSE))
    ELSE ErrorMethod(this, BooleanMessage(this))

\* boolean(): parse our argument/flag as a boolean
Boolean(this) ==
    IF IsNullish(this.value) \/ this.value = Str(<<>>)
    THEN Return(Bool(~this.inverted))
    ELSE IF Includes(truthy, this.value.s)
         THEN IF this.inverted THEN Return(Bool(FALSE)) ELSE Return(Bool(TRUE))
    ELSE IF Includes(falsey, this.value.s)
         THEN IF this.inverted THEN Return(Bool(TRUE)) ELSE Return(Bool(FALSE))
    ELSE ErrorMethod(this, BooleanMessage(this))

----------------------------------------------------------------------------
(* trimIndentation and Argument.exit *)

RECURSIVE Split(_)
\* string.split('\n'): the lines of s
Split(s) ==
    IF "\n" \notin { s[i] : i \in 1..Len(s) } THEN <<s>>
    ELSE LET i == CHOOSE k \in 1..Len(s) :
                    s[k] = "\n" /\ \A j \in 1..(k - 1) : s[j] # "\n"
         IN  <<SubSeq(s, 1, i - 1)>> \o Split(SubSeq(s, i + 1, Len(s)))

RECURSIVE Join(_)
\* lines.join('\n')
Join(lines) ==
    IF Len(lines) = 1 THEN lines[1]
    ELSE lines[1] \o <<"\n">> \o Join(Tail(lines))

\* line.match(/^\s+/): the leading run of whitespace (<<>> when no match)
LeadingWhitespace(line) ==
    SubSeq(line, 1, Len(line) - Len(TrimStart(line)))

\* line.replace(pattern, ''): the first occurrence of pattern is removed
ReplaceFirst(line, pattern) ==
    LET places == { i \in 1..(Len(line) - Len(pattern) + 1) :
                        SubSeq(line, i, i + Len(pattern) - 1) = pattern }
    IN  IF places = {} THEN line
        ELSE LET i == CHOOSE k \in places : \A j \in places : k <= j
             IN  SubSeq(line, 1, i - 1) \o SubSeq(line, i + Len(pattern), Len(line))

\* trimIndentation(string): ok is FALSE when `lines[0] || lines[1]` is
\* undefined (a single empty line) and `.match` raises a TypeError
TrimIndentation(string) ==
    LET lines == Split(string)
        hasFirstLine == lines[1] # <<>> \/ Len(lines) >= 2
        firstLine == IF lines[1] # <<>> THEN lines[1] ELSE lines[2]
    IN  IF ~hasFirstLine THEN [ok |-> FALSE, text |-> <<>>]
        ELSE LET indentation == LeadingWhitespace(firstLine)
             IN  IF indentation # <<>>
                 THEN [ok |-> TRUE,
                       text |-> Join([i \in 1..Len(lines) |->
                                        ReplaceFirst(lines[i], indentation)])]
                 ELSE [ok |-> TRUE, text |-> string]

\* What is thrown, or handed to Argument.exit: a primitive value or an
\* error object
Object == [t |-> "object", s |-> <<>>, n |-> 0]
Thrown(v) == [v |-> v, e |-> NoError]
ThrownError(e) == [v |-> Object, e |-> e]

\* error?.toString(): undefined for no error, the string itself for a
\* string, and Error.prototype.toString for an error object
ToStringOf(err) ==
    CASE IsNullish(err.v) -> Undefined
      [] err.v.t = "string" -> err.v
      [] err.v.t = "object" ->
            IF err.e.message = <<>> THEN Str(<<err.e.name>>)
            ELSE Str(<<err.e.name, ": ">> \o err.e.message)

\* error?.exitCode
ExitCodeOf(err) == IF err.v.t = "object" THEN err.e.exitCode ELSE Undefined

\* error.message
MessageOf(err) == IF err.v.t = "object" THEN Str(err.e.message) ELSE Undefined

\* `!string`
IsFalsy(v) == IsNullish(v) \/ v = Str(<<>>)

ExitResult(printed, codes, crashed) ==
    [stderr |-> printed, exits |-> codes, crashed |-> crashed]

\* exit(help, error): print the help message, the error (if any), and exit
\* with the appropriate code
Exit(h, err) ==
    LET string == ToStringOf(err)
        trimmed == TrimIndentation(h)
    IN  IF ExitCodeOf(err) = Num(ExitCodeInvalid) \/ IsFalsy(string)
        THEN IF ~trimmed.ok THEN ExitResult(<<>>, <<>>, TRUE)
             ELSE IF ~IsFalsy(string) /\ MessageOf(err) # Str(h)
                  THEN ExitResult(<<Trim(trimmed.text), <<"\n">> \o string.s>>,
                                  <<ExitCodeInvalid>>, FALSE)
                  ELSE ExitResult(<<Trim(trimmed.text)>>, <<0>>, FALSE)
        ELSE ExitResult(<<string.s>>,
                        <<IF IsNullish(ExitCodeOf(err)) THEN 1 ELSE ExitCodeOf(err).n>>,
                        FALSE)

----------------------------------------------------------------------------
(* Inputs *)

\* The pieces raw tokens are put together from: the flag prefix, a lone
\* dash, the negation prefix, the key/value separator, a letter that is a
\* falsey word, and a digit that is a truthy word
Fragments ==
    { <<"-","-">>, <<"-">>, <<"n","o","-">>, <<"=">>, <<"n">>, <<"1">> }

RECURSIVE Concat(_)
Concat(parts) ==
    IF parts = <<>> THEN <<>> ELSE Head(parts) \o Concat(Tail(parts))

Raws ==
    { Concat(parts) : parts \in UNION { [1..k -> Fragments] : k \in 0..MaxParts } }

\* Fallback options whose slots hold strings, one per slot
StringPolicies ==
    [enabled : {Undefined, Null, Str(<<"A">>)},
     disabled : {Undefined, Null, Str(<<"B">>)},
     enabledEmpty : {Undefined, Null, Str(<<"C">>)},
     disabledEmpty : {Undefined, Null, Str(<<"D">>)}]

\* Fallback options whose slots hold numbers, one per slot
NumberPolicies ==
    [enabled : {Undefined, Null, Num(1)},
     disabled : {Undefined, Null, Num(-1)},
     enabledEmpty : {Undefined, Null, Num(0)},
     disabledEmpty : {Undefined, Null, Num(2)}]

\* Fallback options with the same unusual value in every slot
OddPolicies ==
    { [enabled |-> v, disabled |-> v, enabledEmpty |-> v, disabledEmpty |-> v] :
        v \in {Str(<<>>), Str(<<"7">>), Str(<<" ">>), NaN} }

Policies == StringPolicies \cup NumberPolicies \cup OddPolicies

Messages == { <<>>, <<"oops">> }

\* Help texts: the empty one, a one-line one, and indented multi-line ones
HelpTexts ==
    { <<>>,
      <<"U">>,
      <<"\n", "\t", "U", "\n", "\t", "-", "h">>,
      <<"\t", "U", "\n", "\t", "\t", "o", "\n">> }

----------------------------------------------------------------------------
(* The token scenario: construct an Argument, then call one of its methods  *)
(* (the object is immutable, so one call per scenario covers every call)   *)

NoCall == [method |-> "none", opts |-> NoOptions, message |-> <<>>]

ExitIdle ==
    /\ help = <<>>
    /\ error = Thrown(Undefined)
    /\ stderr = <<>>
    /\ exits = <<>>
    /\ xpc = "idle"

DriverIdle ==
    /\ argv = <<>>
    /\ args = <<>>
    /\ opts = <<>>
    /\ log = <<>>
    /\ dpc = "idle"
    /\ rejection = NoError

CoreIdle ==
    /\ input = <<>>
    /\ a = NoArgument
    /\ call = NoCall
    /\ outcome = NoOutcome

Init ==
    /\ input \in Raws
    /\ a = NoArgument
    /\ call = NoCall
    /\ outcome = NoOutcome
    /\ ExitIdle
    /\ DriverIdle

\* new Argument(input)
New ==
    /\ ~a.built
    /\ a' = Argument(input)
    /\ UNCHANGED <<input, call, outcome>>
    /\ UNCHANGED <<exitVars, driverVars>>

\* a.string(o)
CallString ==
    /\ a.built
    /\ call = NoCall
    /\ \E o \in Policies :
        /\ call' = [method |-> "string", opts |-> o, message |-> <<>>]
        /\ outcome' = String(a, o)
    /\ UNCHANGED <<input, a>>
    /\ UNCHANGED <<exitVars, driverVars>>

\* a.number(o)
CallNumber ==
    /\ a.built
    /\ call = NoCall
    /\ \E o \in Policies :
        /\ call' = [method |-> "number", opts |-> o, message |-> <<>>]
        /\ outcome' = Number(a, o)
    /\ UNCHANGED <<input, a>>
    /\ UNCHANGED <<exitVars, driverVars>>

\* a.boolean()
CallBoolean ==
    /\ a.built
    /\ call = NoCall
    /\ call' = [method |-> "boolean", opts |-> NoOptions, message |-> <<>>]
    /\ outcome' = Boolean(a)
    /\ UNCHANGED <<input, a>>
    /\ UNCHANGED <<exitVars, driverVars>>

\* a.unknown()
CallUnknown ==
    /\ a.built
    /\ call = NoCall
    /\ call' = [method |-> "unknown", opts |-> NoOptions, message |-> <<>>]
    /\ outcome' = Unknown(a)
    /\ UNCHANGED <<input, a>>
    /\ UNCHANGED <<exitVars, driverVars>>

\* a.error(m)
CallError ==
    /\ a.built
    /\ call = NoCall
    /\ \E m \in Messages :
        /\ call' = [method |-> "error", opts |-> NoOptions, message |-> m]
        /\ outcome' = ErrorMethod(a, m)
    /\ UNCHANGED <<input, a>>
    /\ UNCHANGED <<exitVars, driverVars>>

\* Argument.error(m)
CallStaticError ==
    /\ call = NoCall
    /\ \E m \in Messages :
        /\ call' = [method |-> "Argument.error", opts |-> NoOptions, message |-> m]
        /\ outcome' = StaticError(m)
    /\ UNCHANGED <<input, a>>
    /\ UNCHANGED <<exitVars, driverVars>>

\* Argument.help(h)
CallStaticHelp ==
    /\ call = NoCall
    /\ \E h \in HelpTexts :
        /\ call' = [method |-> "Argument.help", opts |-> NoOptions, message |-> h]
        /\ outcome' = StaticHelp(h)
    /\ UNCHANGED <<input, a>>
    /\ UNCHANGED <<exitVars, driverVars>>

Next ==
    \/ New
    \/ CallString
    \/ CallNumber
    \/ CallBoolean
    \/ CallUnknown
    \/ CallError
    \/ CallStaticError
    \/ CallStaticHelp

Spec == Init /\ [][Next]_vars

----------------------------------------------------------------------------
(* Properties of the token scenario *)

Chars(s) == { s[i] : i \in 1..Len(s) }

\* The text of `s` after its first `n` characters
Drop(s, n) == SubSeq(s, n + 1, Len(s))

\* The 1-based place of the first "=" of s (s holds one)
FirstEquals(s) == CHOOSE i \in 1..Len(s) : s[i] = "=" /\ "=" \notin Chars(SubSeq(s, 1, i - 1))

HasFlagPrefix(s) == Len(s) >= 2 /\ s[1] = "-" /\ s[2] = "-"

HasNoPrefix(s) == Len(s) >= 3 /\ s[1] = "n" /\ s[2] = "o" /\ s[3] = "-"

\* The text between the flag prefix and the first "=" (or the end)
KeyText(raw) ==
    IF "=" \in Chars(raw) THEN SubSeq(raw, 3, FirstEquals(raw) - 1) ELSE Drop(raw, 2)

\* C1: for every raw string the constructor yields the record of the
\* four-step algorithm: "--" is the sentinel (key "--", value null, not a
\* flag, not inverted); any other raw starting with "--" is a flag whose key
\* is the text between the prefix and the first "=" (or the whole remainder),
\* whose value is the text after the first "=" (null when there is none),
\* with one leading "no-" stripped from the key and inverted set; every other
\* raw is positional: key "", value raw, not a flag, not inverted.
C1_Classify ==
    a.built =>
        /\ a.arg = input
        /\ input = <<"-","-">> =>
            /\ a.key = <<"-","-">>
            /\ a.value = Null
            /\ ~a.flag
            /\ ~a.inverted
        /\ (input # <<"-","-">> /\ HasFlagPrefix(input)) =>
            /\ a.flag
            /\ a.inverted = HasNoPrefix(KeyText(input))
            /\ a.key = IF HasNoPrefix(KeyText(input))
                       THEN Drop(KeyText(input), 3)
                       ELSE KeyText(input)
            /\ a.value = IF "=" \in Chars(input)
                         THEN Str(Drop(input, FirstEquals(input)))
                         ELSE Null
        /\ ~HasFlagPrefix(input) =>
            /\ a.key = <<>>
            /\ a.value = Str(input)
            /\ ~a.flag
            /\ ~a.inverted

\* --no-==: a negated flag whose value is the text after the first "="
C1_Witness ==
    /\ a.built
    /\ input = <<"-","-","n","o","-","=","=">>
    /\ a.key = <<>>
    /\ a.flag
    /\ a.inverted
    /\ a.value = Str(<<"=">>)

\* C8: the value is null exactly when the token is a flag whose raw text
\* holds no "=", or the token is the "--" sentinel; a positional argument
\* never has a null value.
C8_ValueNull ==
    a.built =>
        /\ a.value # Undefined
        /\ (a.value = Null) <=>
            \/ a.flag /\ "=" \notin Chars(input)
            \/ input = <<"-","-">>
        /\ (~a.flag /\ a.key = <<>>) => a.value # Null

\* --n= has the value "" where --n has null
C8_Witness ==
    /\ a.built
    /\ input = <<"-","-","n","=">>
    /\ a.value = Str(<<>>)
    /\ Argument(<<"-","-","n">>).value = Null

IsPositional(this) == ~this.flag /\ this.key = <<>>
IsFlag(this) == this.flag
IsSentinel(this) == ~this.flag /\ this.key = <<"-","-">>

\* C9: exactly one of positional, flag, sentinel holds of the token; it has
\* key "--" with flag false exactly when the raw string is "--"; inverted is
\* true only when flag is true.
C9_OneClassification ==
    a.built =>
        /\ Cardinality({ c \in {"positional", "flag", "sentinel"} :
                \/ c = "positional" /\ IsPositional(a)
                \/ c = "flag" /\ IsFlag(a)
                \/ c = "sentinel" /\ IsSentinel(a) }) = 1
        /\ IsSentinel(a) <=> (input = <<"-","-">>)
        /\ a.inverted => a.flag

\* ----: a flag whose key is "--", which is not the sentinel
C9_Witness ==
    /\ a.built
    /\ input = <<"-","-","-","-">>
    /\ a.key = <<"-","-">>
    /\ a.flag

\* The slot of the resolution table for a token, or its value when non-empty
TableEntry(this, o) ==
    CASE this.value = Null /\ ~this.inverted -> o.enabled
      [] this.value = Null /\ this.inverted -> o.disabled
      [] this.value = Str(<<>>) /\ ~this.inverted -> o.disabledEmpty
      [] this.value = Str(<<>>) /\ this.inverted -> o.enabledEmpty
      [] OTHER -> this.value

IsArgumentError(e) ==
    /\ e.name = "ArgumentError"
    /\ e.exitCode = Num(22)
    /\ e.code = "EINVAL"

TruthyWords == { <<"t","r","u","e">>, <<"1">>, <<"y","e","s">>, <<"y">>, <<"o","n">> }
FalseyWords == { <<"f","a","l","s","e">>, <<"0">>, <<"n","o">>, <<"n">>, <<"o","f","f">> }

\* C3: boolean() depends only on value and inverted: a null or "" value
\* gives the negation of inverted; a truthy word gives true unless inverted;
\* a falsey word gives false unless inverted; any other value raises an
\* ArgumentError with a "must have a boolean value" message.
C3_Boolean ==
    call.method = "boolean" =>
        IF a.value \in {Null, Str(<<>>)}
        THEN outcome = Return(Bool(~a.inverted))
        ELSE IF a.value.s \in TruthyWords
        THEN outcome = Return(Bool(~a.inverted))
        ELSE IF a.value.s \in FalseyWords
        THEN outcome = Return(Bool(a.inverted))
        ELSE /\ outcome.kind = "throw"
             /\ IsArgumentError(outcome.error)
             /\ Includes(outcome.error.message, " must have a boolean value, e.g. ")

\* --no-=n: a negated flag with a falsey value is true
C3_Witness ==
    /\ call.method = "boolean"
    /\ input = <<"-","-","n","o","-","=","n">>
    /\ a.inverted
    /\ a.value = Str(<<"n">>)
    /\ outcome = Return(Bool(TRUE))

\* A signed run of decimal digits, or a blank (which Number takes for 0)
LooksNumeric(s) ==
    \/ /\ s # <<>>
       /\ s[Len(s)] \in Digits
       /\ \A i \in 2..Len(s) : s[i] \in Digits
       /\ s[1] \in Digits \cup {"-", "+"}
    \/ /\ s # <<>>
       /\ \A i \in 1..Len(s) : s[i] = " "

\* C4: number(policy) resolves by the table of string(policy), returns the
\* numeric conversion of the resolved value when that is a number (a slot
\* holding a number, 0 included, is returned as it is), and raises an
\* ArgumentError with the "must have a number value" message when the
\* resolved value is absent, empty or not numeric; it never returns NaN.
C4_Number ==
    call.method = "number" =>
        LET entry == TableEntry(a, call.opts)
            numeric == \/ entry.t = "number"
                       \/ entry.t = "string" /\ LooksNumeric(entry.s)
        IN  /\ outcome.kind = "return" <=> numeric
            /\ outcome.kind = "return" =>
                /\ outcome.value.t = "number"
                /\ entry.t = "number" => outcome.value = entry
                /\ entry.t = "string" => outcome.value = StringToNumber(entry.s)
                /\ entry = Str(<<"1","1">>) => outcome.value.n = 11
                /\ entry = Str(<<"-","1">>) => outcome.value.n = -1
                /\ entry = Str(<<" ">>) => outcome.value.n = 0
            /\ outcome.kind # "return" =>
                /\ outcome.kind = "throw"
                /\ IsArgumentError(outcome.error)
                /\ Includes(outcome.error.message, " must have a number value, e.g. ")

\* --n=1 is the number 1, whatever the policy
C4_Witness ==
    /\ call.method = "number"
    /\ input = <<"-","-","n","=","1">>
    /\ call.opts.enabled = Num(1)
    /\ a.value = Str(<<"1">>)
    /\ outcome = Return(Num(1))

\* C10: a failure is raised, never returned: every call either returns a
\* proper result or raises an ArgumentError with exitCode 22 and code
\* "EINVAL"; unknown(), error(), Argument.error() and Argument.help() always
\* raise, unknown() with "Unknown flag" for a flag and "Unknown argument"
\* otherwise.
C10_FailuresAreRaised ==
    call.method # "none" =>
        /\ outcome.kind \in {"return", "throw"}
        /\ outcome.kind = "throw" => IsArgumentError(outcome.error)
        /\ outcome.kind = "return" =>
            /\ call.method \in {"string", "number", "boolean"}
            /\ outcome.value \notin {Undefined, Null}
            /\ call.method = "number" => outcome.value.t = "number"
            /\ call.method = "boolean" => outcome.value.t = "boolean"
            /\ call.method = "string" =>
                outcome.value \in
                    {a.value, call.opts.enabled, call.opts.disabled,
                     call.opts.enabledEmpty, call.opts.disabledEmpty}
        /\ call.method \in {"error", "Argument.error", "Argument.help"} =>
            /\ outcome.kind = "throw"
            /\ outcome.error.message = call.message
        /\ call.method = "unknown" =>
            /\ outcome.kind = "throw"
            /\ outcome.error.message =
                    (IF a.flag THEN <<"Unknown flag: ">> ELSE <<"Unknown argument ">>)
                    \o input

\* unknown() on the flag --n
C10_Witness ==
    /\ call.method = "unknown"
    /\ input = <<"-","-","n">>
    /\ outcome.kind = "throw"
    /\ outcome.error.message = <<"Unknown flag: ", "-", "-", "n">>

----------------------------------------------------------------------------
(* The exit scenario: a program fails (or not) and Argument.exit ends it *)

\* Errors of other origins: plain errors with and without an exit code
ForeignErrors ==
    { [name |-> "Error", message |-> m, exitCode |-> c, code |-> ""] :
        m \in Messages \cup HelpTexts,
        c \in {Undefined, Null, Num(0), Num(2), Num(ExitCodeInvalid)} }

ThrownStrings == { Str(<<>>), Str(<<"oops">>) }

ExitInit ==
    /\ help \in HelpTexts
    /\ error = Thrown(Undefined)
    /\ stderr = <<>>
    /\ exits = <<>>
    /\ xpc = "run"
    /\ CoreIdle
    /\ DriverIdle

\* The program ends without an error and calls Argument.exit(help)
Succeed ==
    /\ xpc = "run"
    /\ \E v \in {Undefined, Null} : error' = Thrown(v)
    /\ xpc' = "caught"
    /\ UNCHANGED <<help, stderr, exits>>
    /\ UNCHANGED <<coreVars, driverVars>>

\* The program calls Argument.help(help)
RequestHelp ==
    /\ xpc = "run"
    /\ error' = ThrownError(StaticHelp(help).error)
    /\ xpc' = "caught"
    /\ UNCHANGED <<help, stderr, exits>>
    /\ UNCHANGED <<coreVars, driverVars>>

\* The program calls Argument.error(m)
FailValidation ==
    /\ xpc = "run"
    /\ \E m \in Messages \cup HelpTexts : error' = ThrownError(StaticError(m).error)
    /\ xpc' = "caught"
    /\ UNCHANGED <<help, stderr, exits>>
    /\ UNCHANGED <<coreVars, driverVars>>

\* The program throws an error of its own
FailOtherwise ==
    /\ xpc = "run"
    /\ \/ \E e \in ForeignErrors : error' = ThrownError(e)
       \/ \E s \in ThrownStrings : error' = Thrown(s)
    /\ xpc' = "caught"
    /\ UNCHANGED <<help, stderr, exits>>
    /\ UNCHANGED <<coreVars, driverVars>>

\* Argument.exit(help, error), as Argument.catch(help) calls it
DoExit ==
    /\ xpc = "caught"
    /\ LET r == Exit(help, error)
       IN  /\ stderr' = stderr \o r.stderr
           /\ exits' = exits \o r.exits
           /\ xpc' = IF r.crashed THEN "crashed" ELSE "exited"
    /\ UNCHANGED <<help, error>>
    /\ UNCHANGED <<coreVars, driverVars>>

ExitNext ==
    \/ Succeed
    \/ RequestHelp
    \/ FailValidation
    \/ FailOtherwise
    \/ DoExit

ExitSpec == ExitInit /\ [][ExitNext]_vars

----------------------------------------------------------------------------
(* The example driver: parse(process.argv.slice(2)).catch(Argument.catch(help)) *)

\* The driver's help text, shortened to its first and last entries; the
\* line breaks and the indentation are kept character by character
DriverHelp ==
    <<"\n", "\t", "USAGE:",
      "\n", "\t", "myprogram [...options]",
      "\n",
      "\n", "\t", "OPTIONS:",
      "\n", "\t", "--help",
      "\n", "\t", " ", " ", "output usage information",
      "\n",
      "\n", "\t", "--",
      "\n", "\t", " ", " ", "Process remaining arguments without any parsing">>

\* The options the driver gives a.string(...)
DriverStringOptions ==
    [enabled |-> Str(<<"when --string, use this value, otherwise throw">>),
     disabled |-> Str(<<"when --no-string, use this value, otherwise throw">>),
     enabledEmpty |-> Str(<<"when --string=, use this value, otherwise throw">>),
     disabledEmpty |-> Str(<<"when --no-string=, use this value, otherwise throw">>)]

\* The options the driver gives a.number(...)
DriverNumberOptions ==
    [enabled |-> Num(1), disabled |-> Num(-1),
     enabledEmpty |-> Num(0), disabledEmpty |-> Num(0)]

KeyHelp == <<"h","e","l","p">>
KeyString == <<"s","t","r","i","n","g">>
KeyNumber == <<"n","u","m","b","e","r">>
KeyBoolean == <<"b","o","o","l","e","a","n">>
Sentinel == <<"-","-">>

\* The tokens the driver is started with
DriverTokens ==
    { Sentinel,
      Sentinel \o KeyHelp,
      Sentinel \o KeyString \o <<"=">>,
      Sentinel \o <<"n","o","-">> \o KeyString,
      Sentinel \o KeyNumber \o <<"=","1">>,
      Sentinel \o KeyNumber \o <<"=","n">>,
      Sentinel \o <<"n","o","-">> \o KeyBoolean,
      <<"x">> }

\* const opts: Options = {} ; vargsIsArgs says that opts.vargs is the args
\* array itself (`opts.vargs = args` stores the reference, not a copy)
NoOpts ==
    [string |-> Undefined, number |-> Undefined, boolean |-> Undefined,
     vargsIsArgs |-> FALSE]

\* What console.log(o) shows when the args array holds `rest`
Snapshot(o, rest) ==
    [string |-> o.string, number |-> o.number, boolean |-> o.boolean,
     hasVargs |-> o.vargsIsArgs,
     vargs |-> IF o.vargsIsArgs THEN rest ELSE <<>>]

DriverInit ==
    /\ argv \in UNION { [1..k -> DriverTokens] : k \in 0..MaxArgs }
    /\ args = argv
    /\ opts = NoOpts
    /\ log = <<>>
    /\ dpc = "loop"
    /\ rejection = NoError
    /\ help = DriverHelp
    /\ error = Thrown(Undefined)
    /\ stderr = <<>>
    /\ exits = <<>>
    /\ xpc = "idle"
    /\ CoreIdle

\* `new Argument(args.shift()!)`
Shifted == Argument(Head(args))

\* The rest of a turn of the loop once the token `tok` has been shifted off
\* args and its case has run: `r` is what the case's body did and `newOpts`
\* the options record it leaves.  On a throw parse rejects; otherwise
\* action(opts) logs the options and the loop goes on.
EndTurn(tok, r, newOpts) ==
    /\ a' = tok
    /\ args' = Tail(args)
    /\ IF r.kind = "throw"
       THEN /\ dpc' = "rejected"
            /\ rejection' = r.error
            /\ log' = log
       ELSE /\ dpc' = "loop"
            /\ rejection' = rejection
            /\ log' = Append(log, Snapshot(newOpts, Tail(args)))
    /\ opts' = newOpts
    /\ UNCHANGED <<argv, input, call, outcome, exitVars>>

\* case '--': opts.vargs = args, and an error when nothing follows
TurnSentinel ==
    /\ dpc = "loop"
    /\ args # <<>>
    /\ Shifted.key = Sentinel
    /\ EndTurn(Shifted,
               IF Tail(args) = <<>>
               THEN ErrorMethod(Shifted, <<"when --, provide at least one argument">>)
               ELSE Return(Undefined),
               [opts EXCEPT !.vargsIsArgs = TRUE])

\* case 'help': return Argument.help(help)
TurnHelp ==
    /\ dpc = "loop"
    /\ args # <<>>
    /\ Shifted.key = KeyHelp
    /\ EndTurn(Shifted, StaticHelp(help), opts)

\* case 'string': opts.string = a.string({...})
TurnString ==
    /\ dpc = "loop"
    /\ args # <<>>
    /\ Shifted.key = KeyString
    /\ LET r == String(Shifted, DriverStringOptions)
       IN  EndTurn(Shifted, r,
                   IF r.kind = "throw" THEN opts ELSE [opts EXCEPT !.string = r.value])

\* case 'number': opts.number = a.number({...})
TurnNumber ==
    /\ dpc = "loop"
    /\ args # <<>>
    /\ Shifted.key = KeyNumber
    /\ LET r == Number(Shifted, DriverNumberOptions)
       IN  EndTurn(Shifted, r,
                   IF r.kind = "throw" THEN opts ELSE [opts EXCEPT !.number = r.value])

\* case 'boolean': opts.boolean = a.boolean()
TurnBoolean ==
    /\ dpc = "loop"
    /\ args # <<>>
    /\ Shifted.key = KeyBoolean
    /\ LET r == Boolean(Shifted)
       IN  EndTurn(Shifted, r,
                   IF r.kind = "throw" THEN opts ELSE [opts EXCEPT !.boolean = r.value])

\* default: return a.unknown()
TurnDefault ==
    /\ dpc = "loop"
    /\ args # <<>>
    /\ Shifted.key \notin {Sentinel, KeyHelp, KeyString, KeyNumber, KeyBoolean}
    /\ EndTurn(Shifted, Unknown(Shifted), opts)

\* while (args.length) ends: parse resolves, nothing exits the process
Resolve ==
    /\ dpc = "loop"
    /\ args = <<>>
    /\ dpc' = "resolved"
    /\ UNCHANGED <<argv, args, opts, log, rejection, coreVars, exitVars>>

\* .catch(Argument.catch(help)): Argument.exit(help, error)
Catch ==
    /\ dpc = "rejected"
    /\ LET r == Exit(help, ThrownError(rejection))
       IN  /\ stderr' = stderr \o r.stderr
           /\ exits' = exits \o r.exits
           /\ dpc' = IF r.crashed THEN "crashed" ELSE "exited"
    /\ error' = ThrownError(rejection)
    /\ UNCHANGED <<argv, args, opts, log, rejection, help, xpc, coreVars>>

DriverNext ==
    \/ TurnSentinel
    \/ TurnHelp
    \/ TurnString
    \/ TurnNumber
    \/ TurnBoolean
    \/ TurnDefault
    \/ Resolve
    \/ Catch

DriverSpec == DriverInit /\ [][DriverNext]_vars

----------------------------------------------------------------------------
(* Properties of the fallback slots' documentation, of the exit scenario   *)
(* and of the driver                                                       *)

\* C6: the slots mean what their documentation says: on --key= string(policy)
\* returns policy.enabledEmpty, and on --no-key= it returns
\* policy.disabledEmpty.
C6_SlotsAsDocumented ==
    (/\ call.method = "string"
     /\ a.flag
     /\ a.value = Str(<<>>)
     /\ call.opts.enabledEmpty \notin {Undefined, Null}
     /\ call.opts.disabledEmpty \notin {Undefined, Null}) =>
        outcome = Return(IF a.inverted THEN call.opts.disabledEmpty
                                       ELSE call.opts.enabledEmpty)

Done == xpc \in {"exited", "crashed"}

HasNoError == error.v \in {Undefined, Null}
IsValidationError == error.v = Object /\ error.e.exitCode = Num(22)
MessageIsHelp == error.v = Object /\ error.e.message = help

\* The error's own exit code, or 1 when it has none
OwnExitCode ==
    IF error.v = Object /\ error.e.exitCode \notin {Undefined, Null}
    THEN error.e.exitCode.n
    ELSE 1

\* The error as console.error shows it
ErrorText ==
    IF error.v = Object
    THEN IF error.e.message = <<>> THEN <<error.e.name>>
         ELSE <<error.e.name, ": ">> \o error.e.message
    ELSE error.v.s

\* The help text as console.error shows it
HelpShown == Trim(TrimIndentation(help).text)

\* C5: Argument.exit(help, error) always ends the process
\* exactly once, with code 0 when there is no error or the error's message
\* equals the help text, 22 when the error is a validation error whose
\* message differs from the help text, and otherwise the error's own exit
\* code, or 1 when it has none; the help text is printed in the first two
\* cases and only the error in the last.
C5_ExitAsClaimed ==
    Done =>
        /\ xpc = "exited"
        /\ Len(exits) = 1
        /\ exits[1] = IF HasNoError \/ MessageIsHelp THEN 0
                      ELSE IF IsValidationError THEN 22
                      ELSE OwnExitCode
        /\ stderr = IF HasNoError \/ MessageIsHelp THEN <<HelpShown>>
                    ELSE IF IsValidationError
                         THEN <<HelpShown, <<"\n">> \o ErrorText>>
                    ELSE <<ErrorText>>

\* The error has no string form: there is none, or it is the empty string
IsSilent == HasNoError \/ error.v = Str(<<>>)

\* What exit(help, error) does, case by case (this holds of the model): the
\* help text is shown when the error is silent (absent, or an empty string)
\* or has exitCode 22, and then the process ends with code 0 when the error
\* is silent or its message equals the help text and with code 22 otherwise
\* (the error printed after the help); any other error is printed alone and
\* the process ends with the error's own exit code, or 1 when it has none,
\* whatever its message.  An empty help text that is to be shown raises a
\* TypeError in trimIndentation before anything is printed or ended.
ExitAsCoded ==
    Done =>
        IF (IsSilent \/ IsValidationError) /\ help = <<>>
        THEN /\ xpc = "crashed"
             /\ exits = <<>>
             /\ stderr = <<>>
        ELSE /\ xpc = "exited"
             /\ Len(exits) = 1
             /\ exits[1] = IF IsSilent \/ (IsValidationError /\ MessageIsHelp) THEN 0
                           ELSE IF IsValidationError THEN 22
                           ELSE OwnExitCode
             /\ stderr = IF IsSilent \/ (IsValidationError /\ MessageIsHelp)
                         THEN <<HelpShown>>
                         ELSE IF IsValidationError
                              THEN <<HelpShown, <<"\n">> \o ErrorText>>
                         ELSE <<ErrorText>>
             /\ (help = <<"\n", "\t", "U", "\n", "\t", "-", "h">> /\ IsSilent) =>
                    stderr = << <<"U", "\n", "-", "h">> >>

\* The tokens of s after its first "--" (none when it has no "--")
AfterSentinel(s) ==
    IF \E i \in 1..Len(s) : s[i] = Sentinel
    THEN LET i == CHOOSE k \in 1..Len(s) :
                    s[k] = Sentinel /\ \A j \in 1..(k - 1) : s[j] # Sentinel
         IN  SubSeq(s, i + 1, Len(s))
    ELSE <<>>

\* C7: once the driver has consumed "--", the remaining tokens are processed
\* without any parsing: none of them is shifted off and classified, parse
\* fails only when nothing follows "--", and when it finishes opts.vargs
\* holds the tokens that followed "--" in their order.
C7_SentinelStopsParsing ==
    opts.vargsIsArgs =>
        /\ args = AfterSentinel(argv)
        /\ dpc \in {"rejected", "exited", "crashed"} => AfterSentinel(argv) = <<>>
        /\ dpc = "resolved" => Snapshot(opts, args).vargs = AfterSentinel(argv)

====
